---- MODULE Spec2Model ----
(***************************************************************************)
(* Xtatic session planner (src/xtatic-session-planner/src/App.jsx).        *)
(*                                                                         *)
(* The App component is modelled as a state machine: the React state       *)
(* (runs, activeId, profile, feedback), the localStorage slot, and one     *)
(* action per event handler.  A handler runs against the values of the     *)
(* render it was created in; the functional updaters it queues with        *)
(* setRuns(prev => ...) are applied in order before the next render, and   *)
(* the save effect writes the slot after every render that changed runs.   *)
(*                                                                         *)
(* Conventions                                                             *)
(*   - an optional / nullable value is a sequence of length 0 or 1         *)
(*     (None, Some(x));                                                    *)
(*   - sessionLengthHours is held in quarter hours (the form's step),      *)
(*     so 4 is one hour;                                                   *)
(*   - planMd is held as the record of everything the template prints.     *)
(***************************************************************************)
EXTENDS Integers, Sequences, FiniteSets, TLC

VARIABLES
    storage,    \* the localStorage slot STORAGE_KEY
    phase,      \* "boot" (page loading), "ready" (App mounted), "crashed"
    runs,       \* React state: list of ClassRun
    activeId,   \* React state: id of the active run
    profile,    \* React state: the profile form
    feedback,   \* React state: the feedback form
    alert,      \* the alert() raised by the last operation, "none" if none
    lastOp,     \* the last operation performed
    clock,      \* the number of operations so far; new Date() reads it
    calc        \* a call of the pure functions (specification FnSpec)

vars == <<storage, phase, runs, activeId, profile, feedback, alert, lastOp, clock, calc>>

appVars == <<storage, phase, runs, activeId, profile, feedback, alert, lastOp, clock>>

----------------------------------------------------------------------------
(* Bounds of the model *)

MaxOps == 8         \* operations of the user in one behaviour
MaxQuarters == 9    \* sessionLengthHours ranges over 0 .. MaxQuarters/4
MaxStudents == 4    \* numStudents inputs of the pure-function calls
MaxExcited == 3     \* excitedCount inputs of the pure-function calls

(* Program constants *)

DefaultTotalSessions == 8
DefaultSessionLength == 4      \* 1 hour, in quarter hours
DefaultNumStudents == 8

----------------------------------------------------------------------------
(* Optional values *)

None == <<>>
Some(x) == <<x>>
IsSome(o) == Len(o) = 1
Val(o) == o[1]

(* a ?? b  for an optional a *)
Coalesce(o, d) == IF IsSome(o) THEN Val(o) ELSE d

Max(a, b) == IF a >= b THEN a ELSE b

----------------------------------------------------------------------------
(* Data constructors *)

emptyStudent ==
    [name |-> "", age |-> "", gender |-> "", interest |-> "",
     passion |-> "", energy |-> "", notes |-> ""]

newEmptyProfile ==
    [subject |-> "", expectation |-> "",
     totalSessions |-> DefaultTotalSessions,
     sessionLengthHours |-> DefaultSessionLength,
     numStudents |-> DefaultNumStudents,
     ageRange |-> "10-13",
     students |-> <<emptyStudent>>]

defaultFeedback ==
    [excitedCount |-> None, digestible |-> None,
     otherInterests |-> "", notGoodEnough |-> ""]

----------------------------------------------------------------------------
(* Pure functions *)

(* markdownEscape: "<" becomes "&lt;" and ">" becomes "&gt;".  Strings are
   atoms here, so the replacement is tabulated for the one string of the
   model that holds angle brackets; no other string of the model has any. *)
markdownEscape(s) == IF s = "<AI>" THEN "&lt;AI&gt;" ELSE s

(* a || b  for strings: the empty string is falsy *)
OrStr(s, d) == IF s = "" THEN d ELSE s

(* Math.round(x) of x = n/d, d > 0: floor(x + 1/2) *)
MathRound(n, d) == (2 * n + d) \div (2 * d)

(* The comparison made with <= *)
Less_orEqual(x, y) == x[1] * y[2] <= y[1] * x[2]

(* x < y for the quotients x = <<a, b>> and y = <<c, d>>, b > 0, d > 0 *)
Less(x, y) == x[1] * y[2] < y[1] * x[2]

Half == <<1, 2>>

(* students.map(s => s.interest).filter(Boolean) *)
RECURSIVE Interests(_)
Interests(students) ==
    IF students = <<>> THEN <<>>
    ELSE LET rest == Interests(Tail(students))
         IN  IF Head(students).interest = "" THEN rest
             ELSE <<Head(students).interest>> \o rest

(* const groupSize = profile?.numStudents || 0 *)
GroupSize(pf) == pf.numStudents

(* No feedback counted as a fully excited group *)
Excitement_absentAsAll(pf, fb) ==
    <<IF IsSome(fb) THEN Coalesce(Val(fb).excitedCount, 0) ELSE Max(1, GroupSize(pf)),
      Max(1, GroupSize(pf))>>

(* (feedback?.excitedCount ?? 0) / Math.max(1, groupSize), as the quotient
   <<dividend, divisor>>; fb is the optional feedback argument *)
Excitement(pf, fb) ==
    <<IF IsSome(fb) THEN Coalesce(Val(fb).excitedCount, 0) ELSE 0,
      Max(1, GroupSize(pf))>>

(* const digest = feedback?.digestible || null *)
Digest(fb) == IF IsSome(fb) THEN Val(fb).digestible ELSE None

(* A division by groupSize itself: x/0 is NaN or Infinity, never < 0.5 *)
needsMoreEngagement_unguarded(pf, fb) ==
    /\ GroupSize(pf) > 0
    /\ Less(<<Excitement(pf, fb)[1], GroupSize(pf)>>, Half)

(* needsMoreEngagement: excitement < 0.5 *)
needsMoreEngagement(pf, fb) == Less(Excitement(pf, fb), Half)

(* "some" forgotten *)
needsMoreScaffold_onlyNo(fb) == Digest(fb) = Some("no")

(* needsMoreScaffold: digest === "no" || digest === "some" *)
needsMoreScaffold(fb) == Digest(fb) = Some("no") \/ Digest(fb) = Some("some")

(* deriveSignals(profile, feedback, sessionNumber).  mentionInterests is
   the list of strings that the code joins with ", "; the 200-character
   cut is beyond the strings of the model. *)
deriveSignals(pf, fb, sessionNumber) ==
    [needsMoreEngagement |-> needsMoreEngagement(pf, fb),
     needsMoreScaffold |-> needsMoreScaffold(fb),
     sessionTheme |-> OrStr(pf.subject, "General Learning"),
     mentionInterests |->
         IF IsSome(fb) /\ Val(fb).otherInterests # ""
         THEN <<Val(fb).otherInterests>>
         ELSE Interests(pf.students),
     levelNote |-> [ageRange |-> OrStr(pf.ageRange, "-"),
                    groupSize |-> GroupSize(pf),
                    sessionNumber |-> sessionNumber]]

(* const len = profile.sessionLengthHours || 1, in quarter hours *)
SessionLen(pf) == IF pf.sessionLengthHours = 0 THEN 4 ELSE pf.sessionLengthHours

(* The five agenda blocks: Math.round(len * k) for k = 10, 15, 15, 15, 5 *)
MinutesPerHour == <<10, 15, 15, 15, 5>>

(* Minutes cut off instead of rounded *)
timing_truncated(pf) ==
    [i \in 1..5 |-> (SessionLen(pf) * MinutesPerHour[i]) \div 4]

timing(pf) ==
    [i \in 1..5 |-> MathRound(SessionLen(pf) * MinutesPerHour[i], 4)]

(* makePlanMarkdown(profile, feedback, sessionNumber): the header, the
   agenda and the variant chosen for each section.  The Reflect and the
   Home Connection sections are fixed text. *)
(* The icebreaker line filled in with the interests *)
warmup_tiedToInterests(s) ==
    [variant |-> IF s.needsMoreEngagement THEN "Energy check-in" ELSE "Quick recap",
     interests |-> s.mentionInterests]

(* const warmup = s.needsMoreEngagement ? [...] : [...] *)
warmup(s) == IF s.needsMoreEngagement THEN "Energy check-in" ELSE "Quick recap"

makePlanMarkdown(pf, fb, sessionNumber) ==
    LET s == deriveSignals(pf, fb, sessionNumber)
    IN  [sessionNumber |-> sessionNumber,
         subject |-> markdownEscape(pf.subject),
         levelNote |-> s.levelNote,
         objective |-> markdownEscape(OrStr(pf.expectation, "the class goals")),
         timing |-> timing(pf),
         warmup |-> warmup(s),
         teach |-> [variant |-> IF s.needsMoreScaffold THEN "Micro-lesson"
                                ELSE "Concept spotlight",
                    theme |-> s.sessionTheme],
         practice |-> IF s.needsMoreScaffold THEN "scaffolded steps"
                      ELSE "open-ended approaches",
         apply |-> IF s.needsMoreEngagement THEN "Gamify" ELSE "Stretch goal"]

----------------------------------------------------------------------------
(* JSON texts, held as the tree of values that the text spells out: a
   number, a string, null, an array (a sequence) or an object (a record of
   the keys that are written).  A key whose value is undefined is not
   written; null is written as null. *)

JNull == [t |-> "null"]
JNum(n) == [t |-> "num", n |-> n]
JStr(str) == [t |-> "str", s |-> str]

(* obj[key] of a parsed object: undefined (None) when the key is missing *)
Get(obj, key) == IF key \in DOMAIN obj THEN Some(obj[key]) ELSE None

MapSeq(f(_), xs) == [i \in 1..Len(xs) |-> f(xs[i])]

(* A null count written as 0 *)
JNullableNum_nullAsZero(o) == JNum(Coalesce(o, 0))

(* A nullable number or string: null is written, and read back as null *)
JNullableNum(o) == IF IsSome(o) THEN JNum(Val(o)) ELSE JNull
JNullableStr(o) == IF IsSome(o) THEN JStr(Val(o)) ELSE JNull
Nullable(j) == IF j.t = "null" THEN None ELSE Some(IF j.t = "num" THEN j.n ELSE j.s)

(* A student, a profile, a feedback: every key is written, strings and
   numbers as they are *)
StringifyStudent(st) == [k \in DOMAIN st |-> st[k]]

ParseStudent(j) == [k \in DOMAIN emptyStudent |-> j[k]]

StringifyProfile(pf) ==
    [subject |-> pf.subject,
     expectation |-> pf.expectation,
     totalSessions |-> pf.totalSessions,
     sessionLengthHours |-> pf.sessionLengthHours,
     numStudents |-> pf.numStudents,
     ageRange |-> pf.ageRange,
     students |-> MapSeq(StringifyStudent, pf.students)]

ParseProfile(j) ==
    [subject |-> j.subject,
     expectation |-> j.expectation,
     totalSessions |-> j.totalSessions,
     sessionLengthHours |-> j.sessionLengthHours,
     numStudents |-> j.numStudents,
     ageRange |-> j.ageRange,
     students |-> MapSeq(ParseStudent, j.students)]

StringifyFeedback(fb) ==
    [excitedCount |-> JNullableNum(fb.excitedCount),
     digestible |-> JNullableStr(fb.digestible),
     otherInterests |-> fb.otherInterests,
     notGoodEnough |-> fb.notGoodEnough]

ParseFeedback(j) ==
    [excitedCount |-> Nullable(j.excitedCount),
     digestible |-> Nullable(j.digestible),
     otherInterests |-> j.otherInterests,
     notGoodEnough |-> j.notGoodEnough]

(* An optional member read back: undefined when the key was not written *)
OptValue(f(_), o) == IF IsSome(o) THEN Some(f(Val(o))) ELSE None

(* A session record: the feedback key is written only when it is defined *)
StringifySession(rec) ==
    IF IsSome(rec.feedback)
    THEN [sessionNumber |-> rec.sessionNumber,
          generatedAt |-> rec.generatedAt,
          planMd |-> rec.planMd,
          feedback |-> StringifyFeedback(Val(rec.feedback))]
    ELSE [sessionNumber |-> rec.sessionNumber,
          generatedAt |-> rec.generatedAt,
          planMd |-> rec.planMd]

ParseSession(j) ==
    [sessionNumber |-> j.sessionNumber,
     generatedAt |-> j.generatedAt,
     planMd |-> j.planMd,
     feedback |-> OptValue(ParseFeedback, Get(j, "feedback"))]

(* A run: the profile key is written only when it is defined *)
StringifyRun(r) ==
    IF IsSome(r.profile)
    THEN [id |-> r.id,
          profile |-> StringifyProfile(Val(r.profile)),
          sessions |-> MapSeq(StringifySession, r.sessions)]
    ELSE [id |-> r.id,
          sessions |-> MapSeq(StringifySession, r.sessions)]

ParseRun(j) ==
    [id |-> j.id,
     profile |-> OptValue(ParseProfile, Get(j, "profile")),
     sessions |-> MapSeq(ParseSession, j.sessions)]

(* JSON.stringify(runs) and JSON.parse of such a text *)
JSONstringify(rs) == MapSeq(StringifyRun, rs)

JSONparse(items) == MapSeq(ParseRun, items)

----------------------------------------------------------------------------
(* The localStorage slot.  Its content is held by kind: no item under the
   key, a text that is not JSON, a JSON value that is not a list, or the
   JSON text of a list of runs, with the elements of that list. *)

SlotKinds ==
    {"absent", "unparseable", "null", "false", "zero", "emptyString",
     "true", "number", "string", "object", "list"}

(* JSON values that JavaScript treats as false in  x || [] *)
FalsyKinds == {"null", "false", "zero", "emptyString"}

Slot(kind) == [kind |-> kind, items |-> <<>>]

(* A save that loses the newest run *)
saveRuns_dropFirst(rs) ==
    [kind |-> "list", items |-> JSONstringify(IF rs = <<>> THEN rs ELSE Tail(rs))]

(* saveRuns(runs): localStorage.setItem(STORAGE_KEY, JSON.stringify(runs)) *)
saveRuns(rs) == [kind |-> "list", items |-> JSONstringify(rs)]

(* loadRuns(): try { JSON.parse(getItem(KEY) || "[]") || [] } catch { [] }.
   The value returned is a list, or whatever truthy JSON value was parsed. *)
loadRuns(slot) ==
    IF slot.kind = "absent" THEN [isArray |-> TRUE, items |-> <<>>]
    ELSE IF slot.kind = "unparseable" THEN [isArray |-> TRUE, items |-> <<>>]
    ELSE IF slot.kind \in FalsyKinds THEN [isArray |-> TRUE, items |-> <<>>]
    ELSE IF slot.kind = "list"
    THEN [isArray |-> TRUE, items |-> JSONparse(slot.items)]
    ELSE [isArray |-> FALSE, items |-> <<>>]

----------------------------------------------------------------------------
(* Runs *)

NoId == 0

Ids == 1..(MaxOps + 1)

IdsOf(rs) == {rs[i].id : i \in 1..Len(rs)}

(* An identifier taken from the number of runs *)
FreshId_fromCount(rs, act) == Len(rs) + 1

(* crypto.randomUUID(): an identifier that is in use nowhere.  The least
   such identifier stands for all of them. *)
FreshId(rs, act) ==
    CHOOSE n \in Ids \ (IdsOf(rs) \cup {act}) :
        \A m \in Ids \ (IdsOf(rs) \cup {act}) : n <= m

(* runs.find(r => r.id === id), as an optional run *)
FindRun(rs, id) ==
    IF \E i \in 1..Len(rs) : rs[i].id = id
    THEN Some(rs[CHOOSE i \in 1..Len(rs) :
                    /\ rs[i].id = id
                    /\ \A j \in 1..(i - 1) : rs[j].id # id])
    ELSE None

(* { id, profile: newEmptyProfile(), sessions: [] } *)
FreshRun(id) == [id |-> id, profile |-> Some(newEmptyProfile), sessions |-> <<>>]

(* The fallback taken although the run has a profile *)
ProfileOr_fallbackOnly(run, d) == d

(* r.profile || newEmptyProfile()  and  run?.profile || profile *)
ProfileOr(run, d) == IF IsSome(run) THEN Coalesce(Val(run).profile, d) ELSE d

(* The form's profile written to every run *)
WithProfile_all(rs, id, pf) ==
    [i \in 1..Len(rs) |-> [rs[i] EXCEPT !.profile = Some(pf)]]

(* prev.map(r => r.id === id ? f(r) : r)  for the three updaters *)
WithProfile(rs, id, pf) ==
    [i \in 1..Len(rs) |->
        IF rs[i].id = id THEN [rs[i] EXCEPT !.profile = Some(pf)] ELSE rs[i]]

(* The new record put first *)
WithSession_prepend(rs, id, rec) ==
    [i \in 1..Len(rs) |->
        IF rs[i].id = id THEN [rs[i] EXCEPT !.sessions = <<rec>> \o @] ELSE rs[i]]

(* The new record put in place of the list *)
WithSession_replace(rs, id, rec) ==
    [i \in 1..Len(rs) |->
        IF rs[i].id = id THEN [rs[i] EXCEPT !.sessions = <<rec>>] ELSE rs[i]]

(* prev.map(r => r.id === id ? {...r, sessions: [...r.sessions, rec]} : r) *)
WithSession(rs, id, rec) ==
    [i \in 1..Len(rs) |->
        IF rs[i].id = id THEN [rs[i] EXCEPT !.sessions = Append(@, rec)] ELSE rs[i]]

WithRun(rs, id, updatedRun) ==
    [i \in 1..Len(rs) |-> IF rs[i].id = id THEN updatedRun ELSE rs[i]]

(* runs.filter(r => r.id !== id) *)
RECURSIVE Without(_, _)
Without(rs, id) ==
    IF rs = <<>> THEN <<>>
    ELSE IF Head(rs).id = id THEN Without(Tail(rs), id)
    ELSE <<Head(rs)>> \o Without(Tail(rs), id)

----------------------------------------------------------------------------
(* What the user can enter *)

Subjects == {"", "Robotics"}
TotalChoices == {0, 1, 2}
StudentChoices == {0, 4}
ExcitedChoices == {None, Some(1), Some(2)}
DigestChoices == {None, Some("yes"), Some("some"), Some("no")}

----------------------------------------------------------------------------
(* Plan generation *)

(* A guard that lets one session too many through *)
TotalOr1_offByOne(pf) == (IF pf.totalSessions = 0 THEN 1 ELSE pf.totalSessions) + 1

(* pf.totalSessions || 1 *)
TotalOr1(pf) == IF pf.totalSessions = 0 THEN 1 ELSE pf.totalSessions

(* makePlan(profile, lastFeedback, nextIndex): a record without feedback *)
makePlan(pf, lastFeedback, nextIndex, now) ==
    [sessionNumber |-> nextIndex,
     generatedAt |-> now,
     planMd |-> makePlanMarkdown(pf, lastFeedback, nextIndex),
     feedback |-> None]

(* run?.sessions.at(-1)?.feedback *)
LastFeedback(run) ==
    IF IsSome(run) /\ Val(run).sessions # <<>>
    THEN Val(run).sessions[Len(Val(run).sessions)].feedback
    ELSE None

(* The length taken for the next index *)
NextIndex_zeroBased(run) == IF IsSome(run) THEN Len(Val(run).sessions) ELSE 0

(* (run?.sessions?.length || 0) + 1 *)
NextIndex(run) == (IF IsSome(run) THEN Len(Val(run).sessions) ELSE 0) + 1

(* generateNextPlan() up to its setRuns call, run against the runs rs of the
   render the handler belongs to: the alert it raises, or the record it
   hands to the updater. *)
generateNextPlan(rs, id, form, now) ==
    LET run == FindRun(rs, id)
        pf == ProfileOr(run, form)
        nextIndex == NextIndex(run)
    IN  IF pf.subject = ""
        THEN [alert |-> "subject", rec |-> None]
        ELSE IF nextIndex > TotalOr1(pf)
        THEN [alert |-> "allGenerated", rec |-> None]
        ELSE [alert |-> "none",
              rec |-> Some(makePlan(pf, LastFeedback(run), nextIndex, now))]

(* The updater queued by generateNextPlan, applied to the state prev *)
AppendPlan(prev, id, gen) ==
    IF IsSome(gen.rec) THEN WithSession(prev, id, Val(gen.rec)) ELSE prev

(* The feedback put on the first record instead of the last *)
AttachFeedback_first(run, fb) == [run EXCEPT !.sessions[1].feedback = Some(fb)]

(* run.sessions.map((s, i) => i === lastIdx ? {...s, feedback} : s) *)
AttachFeedback(run, fb) ==
    [run EXCEPT !.sessions[Len(run.sessions)].feedback = Some(fb)]

----------------------------------------------------------------------------
(* Initial state: the page is about to load, whatever the slot holds *)

CalcIdle == [stage |-> "idle"]

InitialSlots == {Slot(k) : k \in SlotKinds \ {"list"}} \cup {saveRuns(<<>>)}

Unmounted ==
    /\ phase = "boot"
    /\ runs = <<>>
    /\ activeId = NoId
    /\ profile = newEmptyProfile
    /\ feedback = defaultFeedback
    /\ alert = "none"

Init ==
    /\ storage \in InitialSlots
    /\ Unmounted
    /\ lastOp = "load"
    /\ clock = 0
    /\ calc = CalcIdle

(* One more operation; the model follows the user for MaxOps operations *)
Tick == clock < MaxOps /\ clock' = clock + 1

----------------------------------------------------------------------------
(* Operations *)

(* App(): the first render and the two effects that follow it.  A loaded
   value that is not a list has no find method: the render throws and
   nothing is mounted. *)
Mount ==
    /\ phase = "boot"
    /\ Tick
    /\ LET loaded == loadRuns(storage)
           rs == loaded.items
           id == IF rs # <<>> THEN rs[1].id ELSE FreshId(rs, NoId)
           found == FindRun(rs, id)
       IN  IF ~loaded.isArray
           THEN /\ phase' = "crashed"
                /\ UNCHANGED <<storage, runs, activeId, profile, feedback>>
           ELSE /\ phase' = "ready"
                /\ activeId' = id
                /\ profile' = ProfileOr(found, newEmptyProfile)
                /\ feedback' = defaultFeedback
                /\ runs' = IF IsSome(found) THEN rs ELSE <<FreshRun(id)>> \o rs
                /\ storage' = saveRuns(runs')
    /\ alert' = "none"
    /\ lastOp' = "mount"
    /\ UNCHANGED calc

(* The user reloads the page: the React state is gone, the slot stays *)
Reload ==
    /\ phase \in {"ready", "crashed"}
    /\ Tick
    /\ phase' = "boot"
    /\ runs' = <<>>
    /\ activeId' = NoId
    /\ profile' = newEmptyProfile
    /\ feedback' = defaultFeedback
    /\ alert' = "none"
    /\ lastOp' = "load"
    /\ UNCHANGED <<storage, calc>>

(* A form edit: no setRuns, so no save *)
Edit(pf, fb) ==
    /\ phase = "ready"
    /\ Tick
    /\ profile' = pf
    /\ feedback' = fb
    /\ alert' = "none"
    /\ lastOp' = "edit"
    /\ UNCHANGED <<storage, phase, runs, activeId, calc>>

EditSubject == \E v \in Subjects : Edit([profile EXCEPT !.subject = v], feedback)

EditTotalSessions ==
    \E v \in TotalChoices : Edit([profile EXCEPT !.totalSessions = v], feedback)

EditNumStudents ==
    \E v \in StudentChoices : Edit([profile EXCEPT !.numStudents = v], feedback)

EditExcitedCount ==
    \E v \in ExcitedChoices : Edit(profile, [feedback EXCEPT !.excitedCount = v])

EditDigestible ==
    \E v \in DigestChoices : Edit(profile, [feedback EXCEPT !.digestible = v])

(* Save Profile *)
SaveProfile ==
    /\ phase = "ready"
    /\ Tick
    /\ runs' = WithProfile(runs, activeId, profile)
    /\ storage' = saveRuns(runs')
    /\ alert' = "none"
    /\ lastOp' = "saveProfile"
    /\ UNCHANGED <<phase, activeId, profile, feedback, calc>>

(* Generate Next Session Plan *)
GenerateNextPlan ==
    /\ phase = "ready"
    /\ Tick
    /\ LET gen == generateNextPlan(runs, activeId, profile, clock')
       IN  /\ alert' = gen.alert
           /\ runs' = AppendPlan(runs, activeId, gen)
           /\ storage' = IF IsSome(gen.rec) THEN saveRuns(runs') ELSE storage
    /\ lastOp' = "generate"
    /\ UNCHANGED <<phase, activeId, profile, feedback, calc>>

(* Save Feedback -> Generate Next Plan.  generateNextPlan() is called in the
   same handler, so it reads the runs of the current render, in which the
   feedback is not yet recorded; its updater is applied after the one that
   records the feedback. *)
SubmitFeedbackAndGenerate ==
    /\ phase = "ready"
    /\ Tick
    /\ LET run == FindRun(runs, activeId)
       IN  IF ~IsSome(run) \/ Val(run).sessions = <<>>
           THEN /\ alert' = "noSessions"
                /\ UNCHANGED <<runs, storage, feedback>>
           ELSE LET updatedRun == AttachFeedback(Val(run), feedback)
                    recorded == WithRun(runs, activeId, updatedRun)
                    gen == generateNextPlan(runs, activeId, profile, clock')
                IN  /\ alert' = gen.alert
                    /\ runs' = AppendPlan(recorded, activeId, gen)
                    /\ storage' = saveRuns(runs')
                    /\ feedback' = defaultFeedback
    /\ lastOp' = "submit"
    /\ UNCHANGED <<phase, activeId, profile, calc>>

(* New Class *)
NewClassRun ==
    /\ phase = "ready"
    /\ Tick
    /\ LET id == FreshId(runs, activeId)
       IN  /\ runs' = <<FreshRun(id)>> \o runs
           /\ activeId' = id
    /\ storage' = saveRuns(runs')
    /\ profile' = newEmptyProfile
    /\ feedback' = defaultFeedback
    /\ alert' = "none"
    /\ lastOp' = "newClass"
    /\ UNCHANGED <<phase, calc>>

(* A click on a class card *)
SwitchRun ==
    /\ phase = "ready"
    /\ Tick
    /\ \E i \in 1..Len(runs) :
        /\ activeId' = runs[i].id
        /\ profile' = ProfileOr(Some(runs[i]), newEmptyProfile)
    /\ alert' = "none"
    /\ lastOp' = "switch"
    /\ UNCHANGED <<storage, phase, runs, feedback, calc>>

(* Delete on a class card, confirmed or not *)
DeleteRun ==
    /\ phase = "ready"
    /\ Tick
    /\ \E i \in 1..Len(runs), confirmed \in BOOLEAN :
        LET id == runs[i].id
            next == Without(runs, id)
        IN  IF ~confirmed
            THEN UNCHANGED <<storage, runs, activeId, profile>>
            ELSE /\ runs' = next
                 /\ storage' = saveRuns(runs')
                 /\ IF id = activeId /\ next # <<>>
                    THEN /\ activeId' = next[1].id
                         /\ profile' = ProfileOr(Some(next[1]), newEmptyProfile)
                    ELSE UNCHANGED <<activeId, profile>>
    /\ alert' = "none"
    /\ lastOp' = "delete"
    /\ UNCHANGED <<phase, feedback, calc>>

Next ==
    \/ Mount
    \/ Reload
    \/ EditSubject
    \/ EditTotalSessions
    \/ EditNumStudents
    \/ EditExcitedCount
    \/ EditDigestible
    \/ SaveProfile
    \/ GenerateNextPlan
    \/ SubmitFeedbackAndGenerate
    \/ NewClassRun
    \/ SwitchRun
    \/ DeleteRun

Spec == Init /\ [][Next]_vars

----------------------------------------------------------------------------
(* The Class Profile form in full: every field and the student rows *)

MaxRows == 2

ExpectationChoices == {"", "Publish 2 projects"}
LengthChoices == {0, 6}
AgeChoices == {"", "9-11"}
InterestChoices == {"", "Art"}

EditExpectation ==
    \E v \in ExpectationChoices : Edit([profile EXCEPT !.expectation = v], feedback)

EditSessionLengthHours ==
    \E v \in LengthChoices : Edit([profile EXCEPT !.sessionLengthHours = v], feedback)

EditAgeRange == \E v \in AgeChoices : Edit([profile EXCEPT !.ageRange = v], feedback)

(* Add Student *)
AddStudent ==
    /\ Len(profile.students) < MaxRows
    /\ Edit([profile EXCEPT !.students = Append(@, emptyStudent)], feedback)

(* StudentEditor onChange: arr[i] = {...student, [k]: v} *)
EditStudent ==
    \E i \in 1..Len(profile.students), v \in InterestChoices :
        Edit([profile EXCEPT !.students[i].interest = v], feedback)

(* StudentEditor onRemove: the last row removed leaves one empty row *)
RemoveStudent ==
    \E i \in 1..Len(profile.students) :
        LET arr == SubSeq(profile.students, 1, i - 1)
                   \o SubSeq(profile.students, i + 1, Len(profile.students))
        IN  Edit([profile EXCEPT !.students = IF arr # <<>> THEN arr ELSE <<emptyStudent>>],
                 feedback)

FormNext ==
    \/ Mount
    \/ EditSubject
    \/ EditExpectation
    \/ EditTotalSessions
    \/ EditSessionLengthHours
    \/ EditNumStudents
    \/ EditAgeRange
    \/ AddStudent
    \/ EditStudent
    \/ RemoveStudent
    \/ SaveProfile
    \/ GenerateNextPlan
    \/ NewClassRun
    \/ SwitchRun

(* The form is followed for FormOps operations: the page is opened when
   the remaining operations' worth of time has passed *)
FormOps == 6

FormStart == MaxOps - FormOps

FormInit ==
    /\ storage \in InitialSlots
    /\ Unmounted
    /\ lastOp = "load"
    /\ clock = FormStart
    /\ calc = CalcIdle

FormSpec == FormInit /\ [][FormNext]_vars

----------------------------------------------------------------------------
(* Calls of the pure functions on every input within the bounds *)

FnProfiles ==
    {[newEmptyProfile EXCEPT !.subject = sub, !.numStudents = n,
                             !.sessionLengthHours = q] :
        sub \in {"", "<AI>"}, n \in 0..MaxStudents, q \in 0..MaxQuarters}

FnFeedbacks ==
    {None} \cup
    {Some([excitedCount |-> e, digestible |-> d,
           otherInterests |-> o, notGoodEnough |-> g]) :
        e \in {None} \cup {Some(k) : k \in 0..MaxExcited},
        d \in DigestChoices, o \in {"", "drones"}, g \in {"", "pacing"}}

FnInit ==
    /\ storage = Slot("absent")
    /\ Unmounted
    /\ lastOp = "load"
    /\ clock = 0
    /\ \E pf \in FnProfiles, fb \in FnFeedbacks, n \in 1..2 :
        calc = [stage |-> "input", profile |-> pf, feedback |-> fb,
                sessionNumber |-> n, signals |-> None, planMd |-> None]

CallDeriveSignals ==
    /\ calc.stage = "input"
    /\ calc' = [calc EXCEPT
                  !.stage = "signals",
                  !.signals = Some(deriveSignals(calc.profile, calc.feedback,
                                                 calc.sessionNumber))]
    /\ UNCHANGED appVars

CallMakePlanMarkdown ==
    /\ calc.stage = "signals"
    /\ calc' = [calc EXCEPT
                  !.stage = "plan",
                  !.planMd = Some(makePlanMarkdown(calc.profile, calc.feedback,
                                                   calc.sessionNumber))]
    /\ UNCHANGED appVars

FnNext == CallDeriveSignals \/ CallMakePlanMarkdown

FnSpec == FnInit /\ [][FnNext]_vars

----------------------------------------------------------------------------
(* Two calls of makePlanMarkdown with the same profile and session number,
   on feedback that agree on excitedCount and digestible *)

PairFeedbacks ==
    {<<None, None>>}
    \cup {<<a, b>> \in FnFeedbacks \X FnFeedbacks :
            /\ IsSome(a)
            /\ IsSome(b)
            /\ Val(a).excitedCount = Val(b).excitedCount
            /\ Val(a).digestible = Val(b).digestible}

PairInit ==
    /\ storage = Slot("absent")
    /\ Unmounted
    /\ lastOp = "load"
    /\ clock = 0
    /\ \E pf \in FnProfiles, fbs \in PairFeedbacks, n \in 1..2 :
        calc = [stage |-> "input", profile |-> pf, sessionNumber |-> n,
                feedbackA |-> fbs[1], feedbackB |-> fbs[2],
                planA |-> None, planB |-> None]

CallPlanA ==
    /\ calc.stage = "input"
    /\ calc' = [calc EXCEPT
                  !.stage = "first",
                  !.planA = Some(makePlanMarkdown(calc.profile, calc.feedbackA,
                                                  calc.sessionNumber))]
    /\ UNCHANGED appVars

CallPlanB ==
    /\ calc.stage = "first"
    /\ calc' = [calc EXCEPT
                  !.stage = "second",
                  !.planB = Some(makePlanMarkdown(calc.profile, calc.feedbackB,
                                                  calc.sessionNumber))]
    /\ UNCHANGED appVars

PairNext == CallPlanA \/ CallPlanB

PairSpec == PairInit /\ [][PairNext]_vars

----------------------------------------------------------------------------
(* saveRuns followed by loadRuns, on every list of runs within the bounds *)

RtFeedbacks ==
    {[excitedCount |-> e, digestible |-> d, otherInterests |-> o, notGoodEnough |-> ""] :
        e \in {None, Some(0), Some(MaxExcited)}, d \in DigestChoices,
        o \in {"", "drones"}}

RtProfiles ==
    {None, Some(newEmptyProfile),
     Some([newEmptyProfile EXCEPT
             !.subject = "<AI>", !.totalSessions = 0, !.sessionLengthHours = 1,
             !.students = <<[emptyStudent EXCEPT !.interest = "Art"], emptyStudent>>])}

RtSession(n, fb) == [makePlan(newEmptyProfile, None, n, n) EXCEPT !.feedback = fb]

RtSessionLists ==
    {<<>>}
    \cup {<<RtSession(1, fb)>> : fb \in {None} \cup {Some(f) : f \in RtFeedbacks}}
    \cup {<<RtSession(1, Some(f)), RtSession(2, fb)>> :
            f \in RtFeedbacks, fb \in {None, Some(defaultFeedback)}}

RtRuns ==
    {<<>>}
    \cup {<<[id |-> 1, profile |-> pf, sessions |-> ss]>> :
            pf \in RtProfiles, ss \in RtSessionLists}
    \cup {<<[id |-> 2, profile |-> pf2, sessions |-> <<>>],
            [id |-> 1, profile |-> pf, sessions |-> ss]>> :
            pf2 \in RtProfiles, pf \in RtProfiles, ss \in RtSessionLists}

RtInit ==
    /\ storage = Slot("absent")
    /\ Unmounted
    /\ lastOp = "load"
    /\ clock = 0
    /\ \E rs \in RtRuns :
        calc = [stage |-> "runs", runs |-> rs, slot |-> Slot("absent"),
                loaded |-> [isArray |-> TRUE, items |-> <<>>]]

CallSaveRuns ==
    /\ calc.stage = "runs"
    /\ calc' = [calc EXCEPT !.stage = "saved", !.slot = saveRuns(calc.runs)]
    /\ UNCHANGED appVars

CallLoadRuns ==
    /\ calc.stage = "saved"
    /\ calc' = [calc EXCEPT !.stage = "loaded", !.loaded = loadRuns(calc.slot)]
    /\ UNCHANGED appVars

RtNext == CallSaveRuns \/ CallLoadRuns

RtSpec == RtInit /\ [][RtNext]_vars

----------------------------------------------------------------------------
(* Properties of the pure functions, checked under FnSpec *)

FnDerived == calc.stage \in {"signals", "plan"}

FnSignals == Val(calc.signals)

(* The excitedCount the call was given: absent when there is no feedback
   or the field is null *)
FnExcitedCount ==
    IF IsSome(calc.feedback) THEN Val(calc.feedback).excitedCount ELSE None

FnDigestible ==
    IF IsSome(calc.feedback) THEN Val(calc.feedback).digestible ELSE None

(* C5, as claimed: for every profile with numStudents = 0 and every
   excitedCount (absent or any non-negative integer), deriveSignals returns
   needsMoreEngagement = true. *)
C5_EngagementWheneverNoStudents ==
    (FnDerived /\ calc.profile.numStudents = 0) => FnSignals.needsMoreEngagement

(* C5, amended: with numStudents = 0 the divisor is 1, so deriveSignals
   returns needsMoreEngagement = true exactly when excitedCount is absent,
   null or 0, and false for every excitedCount of 1 or more. *)
C5_EngagementIffNoneExcited ==
    (FnDerived /\ calc.profile.numStudents = 0) =>
        (FnSignals.needsMoreEngagement <=>
            (FnExcitedCount = None \/ FnExcitedCount = Some(0)))

C5_Witness ==
    /\ FnDerived
    /\ calc.profile.numStudents = 0
    /\ FnExcitedCount = Some(2)
    /\ ~FnSignals.needsMoreEngagement

(* C6: for every feedback input, no feedback included, deriveSignals
   returns needsMoreScaffold = true exactly when digestible is "some" or
   "no", and false when it is "yes" or absent. *)
C6_ScaffoldIffSomeOrNo ==
    FnDerived =>
        /\ FnDigestible \in {Some("some"), Some("no")} => FnSignals.needsMoreScaffold
        /\ FnDigestible \in {Some("yes"), None} => ~FnSignals.needsMoreScaffold

C6_Witness ==
    /\ FnDerived
    /\ FnDigestible = Some("some")
    /\ FnSignals.needsMoreScaffold

FnPlanned == calc.stage = "plan"

FnTiming == Val(calc.planMd).timing

(* C8, as claimed: for every sessionLengthHours h the form can store, 0 and
   quarter-hour fractions included, each agenda block equals h times its
   1-hour value (10, 15, 15, 15, 5).  h is held in quarter hours, so the
   equation is stated times 4. *)
C8_BlocksScaleLinearly ==
    FnPlanned =>
        \A i \in 1..5 :
            4 * FnTiming[i] = calc.profile.sessionLengthHours * <<10, 15, 15, 15, 5>>[i]

(* C8, amended: the blocks are Math.round(len * k) for k = 10, 15, 15, 15, 5
   with len = sessionLengthHours, or 1 when sessionLengthHours is 0: for a
   1-hour session (and for 0) they are 10, 15, 15, 15, 5; each block is the
   integer nearest to len * k, a half rounding up, so it equals len * k only
   when that product is whole. *)
C8_BlocksAreRoundedProducts ==
    FnPlanned =>
        LET q == calc.profile.sessionLengthHours
            len == IF q = 0 THEN 4 ELSE q
        IN  /\ \A i \in 1..5 :
                LET exact4 == len * <<10, 15, 15, 15, 5>>[i]
                IN  /\ 4 * FnTiming[i] - 2 <= exact4
                    /\ exact4 < 4 * FnTiming[i] + 2
            /\ q \in {0, 4} => FnTiming = <<10, 15, 15, 15, 5>>

C8_Witness ==
    /\ FnPlanned
    /\ calc.profile.sessionLengthHours = 1
    /\ FnTiming = <<3, 4, 4, 4, 1>>

----------------------------------------------------------------------------
(* Properties of the application, checked under Spec *)

Ready == phase = "ready"

(* The step is the operation op *)
Did(op) == clock' = clock + 1 /\ lastOp' = op

Active == FindRun(runs, activeId)

SessionCounts(rs) == [i \in 1..Len(rs) |-> Len(rs[i].sessions)]

(* totalSessions of a stored run *)
TotalOf(run) == Val(run.profile).totalSessions

(* C1, as claimed: in every reachable state every run in the store
   satisfies sessions.length <= profile.totalSessions. *)
C1_SessionsWithinTotal ==
    Ready => \A i \in 1..Len(runs) : Len(runs[i].sessions) <= TotalOf(runs[i])

(* C1, amended: the bound is enforced when a plan is generated, and only
   then, with a total of 0 counted as 1: every operation that makes a run's
   session list longer leaves that run with
   sessions.length <= max(1, profile.totalSessions).  Save Profile may store
   a total below the number of sessions the run already has. *)
C1_AppendsStayWithinTotal ==
    [][\A i \in 1..Len(runs), j \in 1..Len(runs') :
          (runs'[j].id = runs[i].id /\ Len(runs'[j].sessions) > Len(runs[i].sessions))
              => Len(runs'[j].sessions) <= Max(1, TotalOf(runs'[j]))]_vars

C1_Witness ==
    /\ Ready
    /\ lastOp = "generate"
    /\ alert = "none"
    /\ \E i \in 1..Len(runs) : TotalOf(runs[i]) = 0 /\ Len(runs[i].sessions) = 1

(* C2: when Save Feedback -> Generate Next Plan is invoked on the active
   run with n >= 1 sessions, a saved subject and n < totalSessions, the
   record n+1 it appends has a plan whose signals are derived from the
   feedback just submitted for session n. *)
C2_NextPlanUsesSubmittedFeedback ==
    (Ready /\ lastOp = "submit" /\ alert = "none") =>
        LET run == Val(Active)
            n == Len(run.sessions) - 1
            s == deriveSignals(Val(run.profile), run.sessions[n].feedback, n + 1)
            plan == run.sessions[n + 1].planMd
        IN  /\ plan.warmup = "Energy check-in" <=> s.needsMoreEngagement
            /\ plan.teach.variant = "Micro-lesson" <=> s.needsMoreScaffold

(* The active run holds as many sessions as its saved profile allows *)
AtTotal == IsSome(Active) /\ Len(Val(Active).sessions) = TotalOf(Val(Active))

Generation == Did("generate") \/ Did("submit")

Refused == alert' # "none" /\ SessionCounts(runs') = SessionCounts(runs)

(* C3, as claimed: for every totalSessions the form can store, plan
   generation by either button while sessions.length = totalSessions is
   refused with an alert and appends no record to any run. *)
C3_RefusedAtAnyTotal == [][(Generation /\ AtTotal) => Refused]_vars

(* C3, amended: for every totalSessions >= 1, plan generation by either
   button while sessions.length = totalSessions is refused with an alert and
   appends no record to any run.  A total of 0 is read as 1, so the first
   plan of such a run is generated. *)
C3_RefusedAtPositiveTotal ==
    [][(Generation /\ AtTotal /\ TotalOf(Val(Active)) >= 1) => Refused]_vars

C3_Witness ==
    /\ Ready
    /\ lastOp = "submit"
    /\ alert = "allGenerated"
    /\ IsSome(Active)
    /\ Len(Val(Active).sessions) = TotalOf(Val(Active))

(* The same list of runs but for the feedback of the last session of the
   run id *)
SameButLastFeedback(rs, before, id) ==
    /\ Len(rs) = Len(before)
    /\ \A i \in 1..Len(rs) :
        IF before[i].id # id THEN rs[i] = before[i]
        ELSE /\ rs[i].id = id
             /\ rs[i].profile = before[i].profile
             /\ Len(rs[i].sessions) = Len(before[i].sessions)
             /\ \A k \in 1..Len(rs[i].sessions) :
                 IF k < Len(rs[i].sessions)
                 THEN rs[i].sessions[k] = before[i].sessions[k]
                 ELSE [rs[i].sessions[k] EXCEPT !.feedback = None]
                          = [before[i].sessions[k] EXCEPT !.feedback = None]

EmptySavedSubject == IsSome(Active) /\ Val(Val(Active).profile).subject = ""

(* C4: plan generation while the active run's saved profile has an empty
   subject is refused with the subject alert and appends nothing: Generate
   Next Session Plan leaves every run and the slot as they were, and under
   Save Feedback -> Generate Next Plan the store differs only by the
   feedback that the handler records before it calls the generation. *)
C4_EmptySubjectRefused ==
    [][/\ (Did("generate") /\ EmptySavedSubject) =>
            (alert' = "subject" /\ runs' = runs /\ storage' = storage)
       /\ (Did("submit") /\ EmptySavedSubject /\ Val(Active).sessions # <<>>) =>
            (alert' = "subject" /\ SameButLastFeedback(runs', runs, activeId))]_vars

C4_Witness ==
    /\ Ready
    /\ lastOp = "generate"
    /\ alert = "subject"
    /\ IsSome(Active)
    /\ Val(Val(Active).profile).subject = ""
    /\ Len(runs) = 2
    /\ \E i \in 1..2 : runs[i].sessions # <<>>

GuardAlerts == {"none", "subject", "allGenerated"}

(* Some session of the run id in rs carries the feedback fb *)
Recorded(rs, id, fb) ==
    /\ IsSome(FindRun(rs, id))
    /\ \E k \in 1..Len(Val(FindRun(rs, id)).sessions) :
        Val(FindRun(rs, id)).sessions[k].feedback = Some(fb)

(* C7, as claimed: submitting feedback never fails: in every state with an
   active run, Save Feedback -> Generate Next Plan records the entered
   feedback on a session of that run, and the only alerts ever raised are
   the missing subject and the session count exceeding the total. *)
C7_FeedbackAlwaysRecorded ==
    [][/\ alert' \in GuardAlerts
       /\ (Did("submit") /\ IsSome(Active)) => Recorded(runs', activeId, feedback)]_vars

(* C7, amended: submitting feedback on an active run that has at least one
   session never fails: the entered feedback is recorded on the last session
   of that run, also when the generation that follows is refused, and the
   alert is then none, the missing subject or the exhausted total.  On a run
   without sessions (or without an active run) nothing is recorded and a
   third alert is raised, "Please generate at least one session plan
   first"; no other operation raises it. *)
C7_FeedbackRecordedOnLastSession ==
    [][/\ (Did("submit") /\ IsSome(Active) /\ Val(Active).sessions # <<>>) =>
            /\ alert' \in GuardAlerts
            /\ Val(FindRun(runs', activeId)).sessions[Len(Val(Active).sessions)].feedback
                   = Some(feedback)
       /\ (Did("submit") /\ (~IsSome(Active) \/ Val(Active).sessions = <<>>)) =>
            (alert' = "noSessions" /\ runs' = runs)
       /\ alert' = "noSessions" => lastOp' = "submit"]_vars

C7_Witness ==
    /\ Ready
    /\ lastOp = "submit"
    /\ alert = "allGenerated"
    /\ IsSome(Active)
    /\ LET ss == Val(Active).sessions
       IN  /\ ss # <<>>
           /\ IsSome(ss[Len(ss)].feedback)
           /\ Val(ss[Len(ss)].feedback).digestible = Some("no")

(* C9: after every user operation (state update and save effect) the slot
   holds the serialization of the current list of runs. *)
C9_SlotMirrorsRuns ==
    Ready => (storage.kind = "list" /\ storage.items = JSONstringify(runs))

C9_Witness ==
    /\ Ready
    /\ lastOp = "delete"
    /\ Len(runs) = 1
    /\ runs[1].sessions # <<>>
    /\ storage.items = JSONstringify(runs)

(* The run that the mount effect inserts into an empty store *)
StartsAsEmptyStore ==
    /\ phase' = "ready"
    /\ Len(runs') = 1
    /\ runs'[1].profile = Some(newEmptyProfile)
    /\ runs'[1].sessions = <<>>
    /\ activeId' = runs'[1].id
    /\ storage' = [kind |-> "list", items |-> JSONstringify(runs')]

(* C10: for every content of the slot that is not a serialized list of runs
   (absent key, unparseable text, JSON null, or a JSON value that is not a
   list: an object, a number, a string), the application starts with an
   empty list of runs and behaves as for an empty store, without failing. *)
C10_MalformedSlotStartsEmpty ==
    [][(Did("mount") /\ storage.kind # "list") => StartsAsEmptyStore]_vars

----------------------------------------------------------------------------
(* Properties of the store, checked under RtSpec *)

(* C11: for every run with well-formed field types (records with and
   without feedback, feedback whose excitedCount or digestible is null),
   saveRuns followed by loadRuns returns a list whose runs are
   field-for-field equal to the saved ones, in the same order. *)
C11_RoundTrip ==
    calc.stage = "loaded" =>
        /\ calc.loaded.isArray
        /\ Len(calc.loaded.items) = Len(calc.runs)
        /\ \A i \in 1..Len(calc.runs) : calc.loaded.items[i] = calc.runs[i]

C11_Witness ==
    /\ calc.stage = "loaded"
    /\ Len(calc.runs) = 2
    /\ calc.runs[1].profile = None
    /\ Len(calc.runs[2].sessions) = 2
    /\ calc.runs[2].sessions[1].feedback # None
    /\ Val(calc.runs[2].sessions[1].feedback).excitedCount = None
    /\ Val(calc.runs[2].sessions[1].feedback).digestible = Some("some")
    /\ calc.runs[2].sessions[2].feedback = None
    /\ calc.loaded.items = calc.runs

----------------------------------------------------------------------------
(* Properties of the profile form, checked under FormSpec *)

(* The saved profile of the active run, when the run is in the store *)
SavedProfile == Val(Val(Active).profile)

EditLeavesStore == Did("edit") => (runs' = runs /\ storage' = storage)

SaveReplacesActiveProfile ==
    Did("saveProfile") =>
        /\ Len(runs') = Len(runs)
        /\ \A i \in 1..Len(runs) :
            IF runs[i].id = activeId
            THEN /\ runs'[i].profile = Some(profile)
                 /\ runs'[i].id = runs[i].id
                 /\ runs'[i].sessions = runs[i].sessions
            ELSE runs'[i] = runs[i]

GenerateReadsSavedProfile ==
    (Did("generate") /\ IsSome(Active)) =>
        /\ alert' = "subject" <=> SavedProfile.subject = ""
        /\ runs' # runs =>
            LET before == Val(Active).sessions
                after == Val(FindRun(runs', activeId)).sessions
            IN  /\ Len(after) = Len(before) + 1
                /\ after[Len(after)].planMd
                     = makePlanMarkdown(SavedProfile, LastFeedback(Active), Len(after))

(* C12: profile form edits leave the store of runs unchanged until Save
   Profile is invoked; Save Profile replaces only the active run's profile
   with the form's profile and leaves that run's sessions and every other
   run unchanged; plan generation reads the saved profile of the active
   run, not unsaved form edits. *)
C12_FormIsADraft ==
    [][EditLeavesStore /\ SaveReplacesActiveProfile /\ GenerateReadsSavedProfile]_vars

C12_Witness ==
    /\ lastOp = "generate"
    /\ Len(runs) = 2
    /\ IsSome(Active)
    /\ Len(Val(Active).sessions) = 1
    /\ SavedProfile.subject = "Robotics"
    /\ SavedProfile.expectation = ""
    /\ profile.expectation # ""
    /\ Val(Active).sessions[1].planMd = makePlanMarkdown(SavedProfile, None, 1)
    /\ Val(Active).sessions[1].planMd # makePlanMarkdown(profile, None, 1)
    /\ \E i \in 1..Len(runs) : runs[i] = FreshRun(runs[i].id) /\ runs[i].id # activeId

----------------------------------------------------------------------------
(* Properties of the session lists and of the run identifiers, checked
   under Spec *)

(* C13: in every reachable state, for every run, the session record at list
   position i (0-based) has sessionNumber = i + 1: session numbers are
   1-based, contiguous and free of duplicates, whatever order the handlers
   and their queued updates run in.  Sequences here count from 1. *)
C13_SessionNumbersContiguous ==
    \A i \in 1..Len(runs) :
        \A k \in 1..Len(runs[i].sessions) : runs[i].sessions[k].sessionNumber = k

C13_Witness ==
    /\ lastOp = "submit"
    /\ IsSome(Active)
    /\ Len(Val(Active).sessions) = 3
    /\ Val(Active).sessions[3].sessionNumber = 3

(* old is a prefix of new, feedback aside *)
PrefixUpToFeedback(old, new) ==
    /\ Len(old) <= Len(new)
    /\ \A k \in 1..Len(old) :
        /\ new[k].sessionNumber = old[k].sessionNumber
        /\ new[k].generatedAt = old[k].generatedAt
        /\ new[k].planMd = old[k].planMd

(* P(old sessions, new sessions) for every run that is in the store before
   and after the step *)
ForKeptRuns(P(_, _), before, after) ==
    \A i \in 1..Len(before), j \in 1..Len(after) :
        before[i].id = after[j].id => P(before[i].sessions, after[j].sessions)

(* C14: a run's session list is append-only: across every operation other
   than deleting the run, the previous session list is a prefix of the new
   one up to the feedback field, and the sessionNumber, generatedAt and
   planMd of an existing record never change. *)
C14_SessionsAppendOnly == [][ForKeptRuns(PrefixUpToFeedback, runs, runs')]_vars

C14_Witness ==
    /\ lastOp = "submit"
    /\ alert = "none"
    /\ IsSome(Active)
    /\ LET ss == Val(Active).sessions
       IN  /\ Len(ss) = 2
           /\ IsSome(ss[1].feedback)
           /\ ss[2].feedback = None
           /\ ss[1].generatedAt < ss[2].generatedAt

(* A feedback once attached stays as it is, and a feedback is attached only
   to the record that was last *)
FeedbackOnceOnLast(old, new) ==
    \A k \in 1..Len(old) :
        k <= Len(new) =>
            /\ IsSome(old[k].feedback) => new[k].feedback = old[k].feedback
            /\ (old[k].feedback = None /\ IsSome(new[k].feedback)) => k = Len(old)

(* C15, as claimed: each session record receives feedback at most once:
   once a record has a feedback value attached, no later operation replaces
   or removes that value (short of deleting the run), and feedback is only
   ever attached to the record that is last in the run at submission time. *)
C15_FeedbackAttachedOnce == [][ForKeptRuns(FeedbackOnceOnLast, runs, runs')]_vars

(* C16, as claimed: the record for session n+1 is appended only after
   feedback has been recorded on session n, so in every reachable state
   every session record except the last one of its run has feedback
   attached. *)
C16_AllButLastHaveFeedback ==
    \A i \in 1..Len(runs) :
        \A k \in 1..(Len(runs[i].sessions) - 1) : IsSome(runs[i].sessions[k].feedback)

(* C18: in every reachable state the identifiers of the runs in the store
   are pairwise distinct, across the mount-time insertion, New Class and
   Delete. *)
C18_IdsDistinct ==
    \A i, j \in 1..Len(runs) : runs[i].id = runs[j].id => i = j

C18_Witness ==
    /\ lastOp = "newClass"
    /\ Len(runs) = 3
    /\ clock > 3
    /\ Cardinality(IdsOf(runs)) = 3

(* C19, as claimed: after the mount effect, in every reachable state the
   active run id identifies a run that is present in the store, including
   after deleting the active run and after deleting the last remaining
   run. *)
C19_ActiveRunPresent == Ready => IsSome(Active)

(* The step appends exactly one record, numbered previous length + 1, to
   the active run and leaves every other run as it was *)
AppendsOne ==
    /\ IsSome(Active)
    /\ Len(runs') = Len(runs)
    /\ \A i \in 1..Len(runs) :
        IF runs[i].id # activeId THEN runs'[i] = runs[i]
        ELSE /\ runs'[i].id = runs[i].id
             /\ runs'[i].profile = runs[i].profile
             /\ Len(runs'[i].sessions) = Len(runs[i].sessions) + 1
             /\ SubSeq(runs'[i].sessions, 1, Len(runs[i].sessions)) = runs[i].sessions
             /\ runs'[i].sessions[Len(runs'[i].sessions)].sessionNumber
                  = Len(runs[i].sessions) + 1

(* C20, as claimed: every invocation of Generate Next Session Plan either
   raises an alert and leaves the store unchanged, or appends exactly one
   session record (with sessionNumber = previous length + 1) to the active
   run and leaves every other run unchanged; it never returns silently
   without an alert and without appending. *)
C20_GenerateAlertsOrAppends ==
    [][Did("generate") =>
          \/ (alert' # "none" /\ runs' = runs /\ storage' = storage)
          \/ (alert' = "none" /\ AppendsOne)]_vars

----------------------------------------------------------------------------
(* Properties of deriveSignals, checked under FnSpec *)

(* C17: for every profile and feedback, needsMoreEngagement is true exactly
   when excitedCount / max(1, numStudents) < 0.5, with an absent or null
   excitedCount (or no feedback at all) counted as 0; equivalently
   2 * excitedCount < max(1, numStudents). *)
C17_EngagementIffBelowHalf ==
    FnDerived =>
        (FnSignals.needsMoreEngagement <=>
            2 * Coalesce(FnExcitedCount, 0) < Max(1, calc.profile.numStudents))

C17_Witness ==
    /\ FnDerived
    /\ calc.profile.numStudents = 2
    /\ FnExcitedCount = Some(1)
    /\ ~FnSignals.needsMoreEngagement

----------------------------------------------------------------------------
(* Properties of makePlanMarkdown, checked under PairSpec *)

(* C21: the generated plan depends on feedback only through the two derived
   booleans: two generations with the same profile and session number and
   with feedback that agree on excitedCount and digestible produce the same
   plan whatever otherInterests and notGoodEnough are, and the same inputs
   always produce the same plan text. *)
C21_PlanIgnoresFreeText == calc.stage = "second" => calc.planA = calc.planB

C21_Witness ==
    /\ calc.stage = "second"
    /\ IsSome(calc.feedbackA)
    /\ Val(calc.feedbackA).otherInterests = "drones"
    /\ Val(calc.feedbackA).notGoodEnough = "pacing"
    /\ Val(calc.feedbackB).otherInterests = ""
    /\ Val(calc.feedbackB).notGoodEnough = ""
    /\ Val(calc.feedbackA).digestible = Some("no")
    /\ calc.planA = calc.planB
    /\ Val(calc.planA).practice = "scaffolded steps"

----------------------------------------------------------------------------
(* The first plan of a run, checked under FnSpec *)

(* C22: when no feedback is available (always the case for a run's first
   session), deriveSignals returns needsMoreEngagement = true and
   needsMoreScaffold = false for every profile, so the first plan of every
   run uses the engagement warm-up variant and the non-scaffolded teach
   variant regardless of numStudents. *)
C22_NoFeedbackSignals ==
    calc.feedback = None =>
        /\ FnDerived =>
            /\ FnSignals.needsMoreEngagement
            /\ ~FnSignals.needsMoreScaffold
        /\ FnPlanned =>
            /\ Val(calc.planMd).warmup = "Energy check-in"
            /\ Val(calc.planMd).teach.variant = "Concept spotlight"

C22_Witness ==
    /\ FnPlanned
    /\ calc.feedback = None
    /\ calc.profile.numStudents = 3
    /\ calc.sessionNumber = 1
    /\ FnSignals.needsMoreEngagement
    /\ ~FnSignals.needsMoreScaffold
    /\ Val(calc.planMd).warmup = "Energy check-in"
    /\ Val(calc.planMd).teach.variant = "Concept spotlight"

====
